---- MODULE Spec2Model ----
(***************************************************************************)
(* Golf score tracker: the record store (courses, rounds, shots), the      *)
(* round service (createRound, insertShots, completeRound), the course     *)
(* service (findOrCreateCourse) and the tracker screen that drives them.   *)
(*                                                                         *)
(* A nullable column or variable is a sequence of length at most one:      *)
(* Null is <<>>, the value n is <<n>>.                                     *)
(***************************************************************************)
EXTENDS Integers, Sequences, FiniteSets, Bags, TLC

Null == <<>>
Some(n) == <<n>>

(***************************************************************************)
(* Bounds of the model.                                                    *)
(***************************************************************************)
\* rounds the store may hold
MaxRounds == 2
\* largest count the callers of the service specification put in a cell
MaxCount == 1
\* largest count of one cell of a ledger that is flattened
MaxCell == 2
\* largest number of records one flattened ledger holds
MaxBatch == 3
\* service calls issued in one behaviour of the service specification
MaxCalls == 2
\* findOrCreateCourse calls issued in one behaviour
MaxCourseCalls == 3
\* holes of a round (18 in the program, scaled down)
TotalHoles == 2
\* shots the user records in one tracker session
MaxLedger == 1
\* finishRound executions in one tracker session
MaxRuns == 2
\* largest score of a hole on the scorecards the totals are computed for
MaxPerHole == 4
MaxPresses == 3
MaxInits == 2

(***************************************************************************)
(* Vocabularies.  The tracker's ledger has the shot types drive, iron,     *)
(* chip, putt and the outcomes Good, Neutral, Bad; the model keeps two of  *)
(* the shot types, in the ledger's key order.                              *)
(***************************************************************************)
ShotTypes == <<"drive", "putt">>
Outcomes == <<"Good", "Neutral", "Bad">>
ShotTypeSet == {ShotTypes[i] : i \in 1..Len(ShotTypes)}
OutcomeSet == {Outcomes[i] : i \in 1..Len(Outcomes)}
Holes == 1..TotalHoles
Profiles == {"u1"}

\* the default par of completeRound
DefaultPar == 72

VARIABLES
  courses,    \* table courses: sequence of [name, par], the id is the index
  rounds,     \* table rounds: sequence of round records, the id is the index
  shots,      \* table shots: bag of [round_id, hole_number, shot_type, result]
  calls,      \* the service calls issued so far, with their position and locals
  insights,   \* the insights-function invocations: [round_id, status]
  ccalls,     \* the findOrCreateCourse calls issued so far
  currentHole,  \* tracker: the hole shown
  holeShots,    \* tracker: the ledger, hole -> shot type -> outcome -> count
  round,        \* tracker: the id of the round created for the session, or null
  loading,      \* tracker: the saving indicator
  memo,         \* tracker: what the memoized handleNextHole closes over
  alert,        \* tracker: the end-of-round prompt, with what its button closes over
  runs,         \* tracker: the finishRound executions
  inits,        \* tracker: the initializeRound executions
  screen,       \* the screen on top of the stack
  storedRound,  \* AsyncStorage item currentRound
  last,         \* history: the ledger handler that ran last, and the count it met
  card          \* the scorecard screen: its fetch position, hole results and totals

tracker == <<currentHole, holeShots, round, loading, memo, alert, runs, inits,
             screen, storedRound, last>>

vars == <<courses, rounds, shots, calls, insights, ccalls, tracker, card>>

\* what the round service leaves alone
notRoundService == <<ccalls, tracker, card>>

(***************************************************************************)
(* The record store, as the services use it.                               *)
(***************************************************************************)
RoundIds == 1..Len(rounds)
CourseIds == 1..Len(courses)

\* rounds: .insert({profile_id, course_id, is_complete: false}); the columns
\* gross_shots and score have no default and stay null
NewRound(profile_id, course_id) ==
  [profile_id |-> profile_id, course_id |-> course_id, is_complete |-> FALSE,
   gross_shots |-> Null, score |-> Null]

\* shots: .select("id", {count: "exact"}).eq("round_id", round_id)
CountShots_AllRounds(round_id) == BagCardinality(shots)
CountShots(round_id) ==
  BagCardinality([s \in {x \in DOMAIN shots : x.round_id = round_id} |-> shots[s]])

\* const coursePar = courseData.par || 72
CourseParOrDefault(par) == IF par = Null THEN DefaultPar ELSE par[1]

(***************************************************************************)
(* insertShots: the array of shot records built from shotCounts.  The      *)
(* loops follow the key order of the object: shot types, then outcomes,    *)
(* then count pushes of the same record.                                   *)
(***************************************************************************)
ShotRecord(round_id, hole_number, shotType, result) ==
  [round_id |-> round_id, hole_number |-> hole_number,
   shot_type |-> shotType, result |-> result]

\* for (let i = 0; i < count; i++) shots.push(rec)
PushCount_OffByOne(rec, count) == [i \in 1..(count + 1) |-> rec]
PushCount(rec, count) == [i \in 1..count |-> rec]

RECURSIVE OutcomeLoop(_, _, _, _, _)
OutcomeLoop(round_id, hole_number, shotType, outcomes, k) ==
  IF k > Len(Outcomes) THEN <<>>
  ELSE PushCount(ShotRecord(round_id, hole_number, shotType, Outcomes[k]),
                 outcomes[Outcomes[k]])
       \o OutcomeLoop(round_id, hole_number, shotType, outcomes, k + 1)

RECURSIVE ShotTypeLoop(_, _, _, _)
ShotTypeLoop(round_id, hole_number, shotCounts, k) ==
  IF k > Len(ShotTypes) THEN <<>>
  ELSE OutcomeLoop(round_id, hole_number, ShotTypes[k], shotCounts[ShotTypes[k]], 1)
       \o ShotTypeLoop(round_id, hole_number, shotCounts, k + 1)

BuildShots(round_id, hole_number, shotCounts) ==
  ShotTypeLoop(round_id, hole_number, shotCounts, 1)

RECURSIVE SeqToBag(_)
SeqToBag(s) == IF s = <<>> THEN EmptyBag ELSE SetToBag({Head(s)}) (+) SeqToBag(Tail(s))

\* the ledgers of one hole
ZeroCounts == [t \in ShotTypeSet |-> [o \in OutcomeSet |-> 0]]
RECURSIVE SumSeq(_)
SumSeq(s) == IF s = <<>> THEN 0 ELSE Head(s) + SumSeq(Tail(s))
CountsTotal(c) ==
  SumSeq([i \in 1..Len(ShotTypes) |->
            SumSeq([j \in 1..Len(Outcomes) |-> c[ShotTypes[i]][Outcomes[j]]])])
HoleCounts ==
  {c \in [ShotTypeSet -> [OutcomeSet -> 0..MaxCell]] : CountsTotal(c) <= MaxBatch}
\* the ledgers the callers of the service specification insert: one cell used
CallCounts ==
  {[ZeroCounts EXCEPT ![ShotTypes[1]][Outcomes[1]] = n] : n \in 0..MaxCount}

(***************************************************************************)
(* Service calls.  A call is a record of its operation, its position (the  *)
(* await it is suspended at), its locals and its outcome.  since is a      *)
(* history field: the records inserted for the call's round after the      *)
(* call took its count.  failedAt, updated, written and invokeThrew are    *)
(* history fields too: the store call that failed, whether the round       *)
(* update was applied and with which record, and whether invoking the      *)
(* insights function threw.                                                *)
(***************************************************************************)
NewCall(op, pc, round_id) ==
  [op |-> op, pc |-> pc, round_id |-> round_id, hole |-> 0, shotCounts |-> Null,
   arr |-> <<>>, roundData |-> Null, coursePar |-> Null, grossShots |-> Null,
   data |-> Null, outcome |-> "pending", ret |-> Null,
   since |-> 0, failedAt |-> "", updated |-> FALSE, written |-> Null,
   invokeThrew |-> FALSE]

CallIds == 1..Len(calls)

\* a call that has returned or thrown keeps no locals
Return(c, value) ==
  [c EXCEPT !.pc = "done", !.outcome = "return", !.ret = value,
            !.arr = <<>>, !.roundData = Null, !.coursePar = Null, !.data = Null]
Throw_Swallowed(c) ==
  [c EXCEPT !.pc = "done", !.outcome = "return",
            !.arr = <<>>, !.roundData = Null, !.coursePar = Null, !.data = Null,
            !.grossShots = Null]
Throw(c) ==
  [c EXCEPT !.pc = "done", !.outcome = "throw",
            !.arr = <<>>, !.roundData = Null, !.coursePar = Null, !.data = Null,
            !.grossShots = Null]

\* createRound: one insert; a rejected insert throws and leaves no trace
createRound(profile_id, course_id) ==
  /\ Len(rounds) < MaxRounds
  /\ rounds' = Append(rounds, NewRound(profile_id, course_id))
  /\ UNCHANGED <<courses, shots, calls, insights>>
  /\ UNCHANGED notRoundService

\* if (shots.length === 0) return []; otherwise the call awaits the store
InsertShotsStart_NoEarlyReturn(c) == c
InsertShotsStart(c) ==
  IF Len(c.arr) = 0 THEN Return(c, <<>>) ELSE c

\* insertShots, up to the await of the bulk insert; no records, no insert
insertShotsCall(round_id, hole_number, shotCounts) ==
  /\ Len(calls) < MaxCalls
  /\ LET arr == BuildShots(round_id, hole_number, shotCounts)
         c == [NewCall("insertShots", "insert", round_id)
                 EXCEPT !.hole = hole_number, !.shotCounts = Some(shotCounts), !.arr = arr]
     IN calls' = Append(calls, InsertShotsStart(c))
  /\ UNCHANGED <<courses, rounds, shots, insights>>
  /\ UNCHANGED notRoundService

\* the store's answer to the bulk insert
insertShotsResolve(k, ok) ==
  /\ calls[k].op = "insertShots" /\ calls[k].pc = "insert"
  /\ IF ok
     THEN /\ shots' = shots (+) SeqToBag(calls[k].arr)
          /\ calls' = [j \in CallIds |->
               IF j = k THEN Return(calls[k], calls[k].arr)
               ELSE IF /\ calls[j].op = "completeRound"
                       /\ calls[j].round_id = calls[k].round_id
                       /\ calls[j].grossShots # Null
                    THEN [calls[j] EXCEPT !.since = @ + Len(calls[k].arr)]
                    ELSE calls[j]]
     ELSE /\ shots' = shots
          /\ calls' = [calls EXCEPT ![k] = Throw([calls[k] EXCEPT !.failedAt = "insert"])]
  /\ UNCHANGED <<courses, rounds, insights>>
  /\ UNCHANGED notRoundService

\* completeRound, up to the await of the round lookup
completeRoundCall(round_id) ==
  /\ Len(calls) < MaxCalls
  /\ calls' = Append(calls, NewCall("completeRound", "selectRound", round_id))
  /\ UNCHANGED <<courses, rounds, shots, insights>>
  /\ UNCHANGED notRoundService

\* rounds: .select("course_id, profile_id").eq("id", round_id).single()
completeRoundSelectRound(k, ok) ==
  /\ calls[k].op = "completeRound" /\ calls[k].pc = "selectRound"
  /\ LET c == calls[k]
     IN calls' = [calls EXCEPT ![k] =
          IF ok /\ c.round_id \in RoundIds
          THEN [c EXCEPT !.pc = "selectCourse",
                         !.roundData = Some([course_id |-> rounds[c.round_id].course_id,
                                             profile_id |-> rounds[c.round_id].profile_id])]
          ELSE Throw([c EXCEPT !.failedAt = "selectRound"])]
  /\ UNCHANGED <<courses, rounds, shots, insights>>
  /\ UNCHANGED notRoundService

\* courses: .select("par").eq("id", roundData.course_id).single()
completeRoundSelectCourse(k, ok) ==
  /\ calls[k].op = "completeRound" /\ calls[k].pc = "selectCourse"
  /\ LET c == calls[k]
         course_id == c.roundData[1].course_id
     IN calls' = [calls EXCEPT ![k] =
          IF ok /\ course_id \in CourseIds
          THEN [c EXCEPT !.pc = "count",
                         !.coursePar = Some(CourseParOrDefault(courses[course_id].par))]
          ELSE Throw([c EXCEPT !.failedAt = "selectCourse"])]
  /\ UNCHANGED <<courses, rounds, shots, insights>>
  /\ UNCHANGED notRoundService

\* shots: the exact count of the round's records
completeRoundCount(k, ok) ==
  /\ calls[k].op = "completeRound" /\ calls[k].pc = "count"
  /\ LET c == calls[k]
     IN calls' = [calls EXCEPT ![k] =
          IF ok THEN [c EXCEPT !.pc = "update", !.grossShots = Some(CountShots(c.round_id))]
          ELSE Throw([c EXCEPT !.failedAt = "count"])]
  /\ UNCHANGED <<courses, rounds, shots, insights>>
  /\ UNCHANGED notRoundService

\* const score = grossShots - coursePar; the patch of the update
CompletionPatch_Accumulate(row, grossShots, coursePar) ==
  LET g == grossShots + (IF row.gross_shots = Null THEN 0 ELSE row.gross_shots[1])
  IN [row EXCEPT !.is_complete = TRUE, !.gross_shots = Some(g), !.score = Some(g - coursePar)]
CompletionPatch_FlagKept(row, grossShots, coursePar) ==
  [row EXCEPT !.gross_shots = Some(grossShots), !.score = Some(grossShots - coursePar)]
CompletionPatch(row, grossShots, coursePar) ==
  [row EXCEPT !.is_complete = TRUE, !.gross_shots = Some(grossShots),
                !.score = Some(grossShots - coursePar)]

\* rounds: .update({is_complete, gross_shots, score}).eq("id", round_id).select()
completeRoundUpdate(k, ok) ==
  /\ calls[k].op = "completeRound" /\ calls[k].pc = "update"
  /\ LET r == calls[k].round_id
         patched == CompletionPatch(rounds[r], calls[k].grossShots[1], calls[k].coursePar[1])
     IN IF ok
        THEN /\ rounds' = [rounds EXCEPT ![r] = patched]
             /\ calls' = [calls EXCEPT ![k] =
                  [calls[k] EXCEPT !.pc = "invoke", !.data = Some(patched),
                                   !.updated = TRUE, !.written = Some(patched)]]
        ELSE /\ rounds' = rounds
             /\ calls' = [calls EXCEPT ![k] = Throw([calls[k] EXCEPT !.failedAt = "update"])]
  /\ UNCHANGED <<courses, shots, insights>>
  /\ UNCHANGED notRoundService

\* catch (insightsError): logged, the round completion goes on
CatchInsightsError_Rethrown(c) == Throw(c)
CatchInsightsError(c) == Return(c, c.data)

\* supabase.functions.invoke(...) without await, inside try/catch, then return data
completeRoundInvoke(k, invokeThrows) ==
  /\ calls[k].op = "completeRound" /\ calls[k].pc = "invoke"
  /\ IF invokeThrows
     THEN /\ calls' = [calls EXCEPT ![k] =
               CatchInsightsError([calls[k] EXCEPT !.invokeThrew = TRUE])]
          /\ insights' = insights
     ELSE /\ calls' = [calls EXCEPT ![k] = Return(@, @.data)]
          /\ insights' = Append(insights,
               [roundId |-> calls[k].round_id, userId |-> calls[k].roundData[1].profile_id,
                status |-> "pending"])
  /\ UNCHANGED <<courses, rounds, shots>>
  /\ UNCHANGED notRoundService

\* .then(({data, error}) => log) and .catch(err => log): the promise settles
InsightsSettled(i, status) == [i EXCEPT !.status = status]

insightsSettle(n, status) ==
  /\ n \in 1..Len(insights) /\ insights[n].status = "pending"
  /\ insights' = [insights EXCEPT ![n] = InsightsSettled(@, status)]
  /\ UNCHANGED <<courses, rounds, shots, calls>>
  /\ UNCHANGED notRoundService

(***************************************************************************)
(* The tracker screen as it is mounted: hole 1, a ledger of zeros for      *)
(* every hole, no round yet, and the initializeRound effect started.       *)
(***************************************************************************)
NoLast ==
  [op |-> "", type |-> "", outcome |-> "", met |-> 0, start |-> Null, adds |-> 0, removes |-> 0]

CountsOf(ledger, hole) == IF hole \in DOMAIN ledger THEN Some(ledger[hole]) ELSE Null

TrackerMounted ==
  /\ currentHole = 1
  /\ holeShots = [h \in Holes |-> ZeroCounts]
  /\ round = Null
  /\ loading = FALSE
  /\ memo = [hole |-> 1, round |-> Null, counts |-> Some(ZeroCounts)]
  /\ alert = Null
  /\ runs = <<>>
  /\ inits = << [pc |-> "getItem", ccall |-> 0] >>
  /\ screen = "tracker"
  /\ storedRound = Null
  /\ last = NoLast

\* no scorecard has been opened
NoCard ==
  [pc |-> "none", roundId |-> Null, vocabulary |-> {}, read |-> Null, settled |-> {},
   holeResults |-> Null, totals |-> Null]

(***************************************************************************)
(* The service specification: any callers, any interleaving.               *)
(***************************************************************************)
SeedCourses ==
  << [name |-> <<"A", "b">>, par |-> Some(70)], [name |-> <<"b", "b">>, par |-> Null] >>

Init ==
  /\ courses = SeedCourses
  /\ rounds = <<>>
  /\ shots = EmptyBag
  /\ calls = <<>>
  /\ insights = <<>>
  /\ ccalls = <<>>
  /\ TrackerMounted
  /\ card = NoCard

Next ==
  \/ \E p \in Profiles, cid \in CourseIds : createRound(p, cid)
  \/ \E r \in RoundIds, sc \in CallCounts : insertShotsCall(r, 1, sc)
  \/ \E k \in CallIds, ok \in BOOLEAN : insertShotsResolve(k, ok)
  \/ \E r \in RoundIds : completeRoundCall(r)
  \/ \E k \in CallIds, ok \in BOOLEAN : completeRoundSelectRound(k, ok)
  \/ \E k \in CallIds, ok \in BOOLEAN : completeRoundSelectCourse(k, ok)
  \/ \E k \in CallIds, ok \in BOOLEAN : completeRoundCount(k, ok)
  \/ \E k \in CallIds, ok \in BOOLEAN : completeRoundUpdate(k, ok)
  \/ \E k \in CallIds, t \in BOOLEAN : completeRoundInvoke(k, t)
  \/ \E n \in 1..Len(insights), st \in {"ok", "error", "rejected"} : insightsSettle(n, st)

Spec == Init /\ [][Next]_vars

(***************************************************************************)
(* The round service on a store that holds a round with two records.       *)
(***************************************************************************)
InitRecount ==
  /\ courses = SeedCourses
  /\ rounds = << NewRound("u1", 1) >>
  /\ shots = SeqToBag(BuildShots(1, 1, [ZeroCounts EXCEPT ![ShotTypes[1]][Outcomes[1]] = 2]))
  /\ calls = <<>>
  /\ insights = <<>>
  /\ ccalls = <<>>
  /\ TrackerMounted
  /\ card = NoCard

SpecRecount == InitRecount /\ [][Next]_vars

(***************************************************************************)
(* The older round service (roundService.js): completeRound is one update  *)
(* of the completion flag.                                                 *)
(***************************************************************************)
\* rounds: .update({is_complete: true}).eq("id", round_id)
LegacyPatch(row) == [row EXCEPT !.is_complete = TRUE]

completeRoundLegacy(round_id, ok) ==
  /\ Len(calls) < MaxCalls
  /\ LET c == NewCall("completeRoundLegacy", "update", round_id)
     IN IF ok
        THEN /\ rounds' = [rounds EXCEPT ![round_id] = LegacyPatch(@)]
             /\ calls' = Append(calls, Return(c, Null))
        ELSE /\ rounds' = rounds
             /\ calls' = Append(calls, Throw([c EXCEPT !.failedAt = "update"]))
  /\ UNCHANGED <<courses, shots, insights>>
  /\ UNCHANGED notRoundService

NextAllVersions ==
  \/ Next
  \/ \E r \in RoundIds, ok \in BOOLEAN : completeRoundLegacy(r, ok)

SpecAllVersions == Init /\ [][NextAllVersions]_vars

(***************************************************************************)
(* Flattening one ledger: one insertShots call, for any round, hole and    *)
(* ledger, on a store that holds two new rounds.                           *)
(***************************************************************************)
InitFlatten ==
  /\ courses = SeedCourses
  /\ rounds = << NewRound("u1", 1), NewRound("u1", 2) >>
  /\ shots = EmptyBag
  /\ calls = <<>>
  /\ insights = <<>>
  /\ ccalls = <<>>
  /\ TrackerMounted
  /\ card = NoCard

NextFlatten ==
  \/ \E r \in RoundIds, h \in Holes, sc \in HoleCounts :
       calls = <<>> /\ insertShotsCall(r, h, sc)
  \/ \E k \in CallIds, ok \in BOOLEAN : insertShotsResolve(k, ok)

SpecFlatten == InitFlatten /\ [][NextFlatten]_vars

(***************************************************************************)
(* The course service.  A course name is a sequence of letters.            *)
(***************************************************************************)
LowerChar(ch) == CASE ch = "A" -> "a" [] ch = "B" -> "b" [] OTHER -> ch

\* String.prototype.toLowerCase
toLowerCase_Identity(str) == str
toLowerCase(str) == [i \in 1..Len(str) |-> LowerChar(str[i])]

\* the names the callers ask for: case variants of one name, and the stored
\* names of the seeded courses (a course picked in the selector is passed on
\* by its stored name)
RequestNames == { <<"a", "b">>, <<"A", "b">>, <<"A", "B">>, <<"b", "b">> }

\* courses: .select("*").eq("name", normalizedName): equality of the stored text
MatchingCourses(normalizedName) == {i \in CourseIds : courses[i].name = normalizedName}

NewCourseCall(name) ==
  [name |-> name, normalizedName |-> toLowerCase(name), pc |-> "select",
   outcome |-> "pending", ret |-> Null,
   matched |-> {}, present |-> {}, inserted |-> Null,
   lookups |-> 0, lookupOk |-> TRUE, inserts |-> 0]

CourseCallIds == 1..Len(ccalls)

CourseRow(i) == [id |-> i, name |-> courses[i].name, par |-> courses[i].par]

\* findOrCreateCourse, up to the await of the lookup
findOrCreateCourseCall(name) ==
  /\ Len(ccalls) < MaxCourseCalls
  /\ ccalls' = Append(ccalls, NewCourseCall(name))
  /\ UNCHANGED <<courses, rounds, shots, calls, insights, tracker, card>>

\* if (error && error.code !== "PGRST116") throw error; if (course) return course
LookupResult_ErrorIgnored(ok, rows) ==
  IF ok /\ Cardinality(rows) = 1 THEN "found" ELSE "absent"
LookupResult(ok, rows) ==
  IF ~ok THEN "error" ELSE IF Cardinality(rows) = 1 THEN "found" ELSE "absent"

\* .insert({name: normalizedName}): a new row, whatever rows the table holds
InsertCourse_IfAbsent(table, normalizedName) ==
  IF \E i \in 1..Len(table) : table[i].name = normalizedName
  THEN table
  ELSE Append(table, [name |-> normalizedName, par |-> Null])
InsertCourse(table, normalizedName) ==
  Append(table, [name |-> normalizedName, par |-> Null])

\* the answer to .single(): the row when exactly one matches; with no row or
\* several rows no data and the error code PGRST116; any other error is thrown.
\* matched and present are history fields: the rows whose name is the
\* normalized name, and the rows whose name is the requested name but for case;
\* so are lookups, lookupOk and inserts: the requests sent and the store's answer.
findOrCreateCourseSelect(k, ok) ==
  /\ ccalls[k].pc = "select"
  /\ LET c == ccalls[k]
         rows == MatchingCourses(c.normalizedName)
         seen == [c EXCEPT !.matched = rows, !.lookups = @ + 1, !.lookupOk = ok,
                           !.present = {i \in CourseIds :
                                          toLowerCase(courses[i].name) = toLowerCase(c.name)}]
         res == LookupResult(ok, rows)
     IN ccalls' = [ccalls EXCEPT ![k] =
          IF res = "error" THEN [seen EXCEPT !.pc = "done", !.outcome = "throw"]
          ELSE IF res = "found"
               THEN [seen EXCEPT !.pc = "done", !.outcome = "return",
                                 !.ret = Some(CourseRow(CHOOSE i \in rows : TRUE))]
               ELSE [seen EXCEPT !.pc = "insert"]]
  /\ UNCHANGED <<courses, rounds, shots, calls, insights, tracker, card>>

\* courses: .insert({name: normalizedName}).select().single()
findOrCreateCourseInsert(k, ok) ==
  /\ ccalls[k].pc = "insert"
  /\ IF ok
     THEN /\ courses' = InsertCourse(courses, ccalls[k].normalizedName)
          /\ ccalls' = [ccalls EXCEPT ![k] =
               [ccalls[k] EXCEPT !.pc = "done", !.outcome = "return", !.inserts = @ + 1,
                                 !.ret = Some([id |-> Len(courses) + 1,
                                               name |-> ccalls[k].normalizedName,
                                               par |-> Null]),
                                 !.inserted = Some(Len(courses) + 1)]]
     ELSE /\ courses' = courses
          /\ ccalls' = [ccalls EXCEPT ![k] = [ccalls[k] EXCEPT !.pc = "done", !.outcome = "throw",
                                                           !.inserts = @ + 1]]
  /\ UNCHANGED <<rounds, shots, calls, insights, tracker, card>>

\* any callers, any interleaving
NextCourse ==
  \/ \E name \in RequestNames : findOrCreateCourseCall(name)
  \/ \E k \in CourseCallIds, ok \in BOOLEAN : findOrCreateCourseSelect(k, ok)
  \/ \E k \in CourseCallIds, ok \in BOOLEAN : findOrCreateCourseInsert(k, ok)

SpecCourse == Init /\ [][NextCourse]_vars

\* one caller: a call is issued when the calls before it have ended
NextCourseSeq ==
  \/ \E name \in RequestNames :
       /\ \A k \in CourseCallIds : ccalls[k].pc = "done"
       /\ findOrCreateCourseCall(name)
  \/ \E k \in CourseCallIds, ok \in BOOLEAN : findOrCreateCourseSelect(k, ok)
  \/ \E k \in CourseCallIds, ok \in BOOLEAN : findOrCreateCourseInsert(k, ok)

SpecCourseSeq == Init /\ [][NextCourseSeq]_vars

(***************************************************************************)
(* The tracker screen (TrackerScreen.js).  A handler runs with the values  *)
(* of the render that created it: the button and the ledger handlers with  *)
(* those of the present render, the memoized handleNextHole, and the       *)
(* finishRound its prompt calls, with those of the render in which         *)
(* currentHole last changed.  A finishRound execution keeps the values it  *)
(* started with across its awaits.                                         *)
(***************************************************************************)
\* the names the selected course may have: a seeded course picked in the selector
TrackerCourseNames == { <<"A", "b">>, <<"b", "b">> }

LedgerTotal == SumSeq([h \in 1..TotalHoles |-> CountsTotal(holeShots[h])])

Closure(hole, rnd, ledger) ==
  [hole |-> hole, round |-> rnd, counts |-> CountsOf(ledger, hole)]

\* <ShotTable shotCounts={holeShots[currentHole]}> reads shotCounts[type]
ShotTableThrows == ~loading /\ currentHole \notin DOMAIN holeShots

\* the tracker is on top, no prompt is open, the screen rendered
UIReady == screen = "tracker" /\ alert = Null /\ ~ShotTableThrows

\* initializeRound: AsyncStorage.getItem("selectedCourse"), then findOrCreateCourse
initializeRoundCourse(n, name) ==
  /\ inits[n].pc = "getItem"
  /\ ccalls' = Append(ccalls, NewCourseCall(name))
  /\ inits' = [inits EXCEPT ![n] = [pc |-> "course", ccall |-> Len(ccalls) + 1]]
  /\ last' = NoLast
  /\ UNCHANGED <<card, courses, rounds, shots, calls, insights, currentHole, holeShots, round,
                 loading, memo, alert, runs, screen, storedRound>>

\* initializeRound: createRound(user.id, courseRecord.id), setRound, setItem
initializeRoundCreate(n, ok) ==
  /\ inits[n].pc = "course"
  /\ ccalls[inits[n].ccall].pc = "done"
  /\ IF ok /\ ccalls[inits[n].ccall].outcome = "return"
     THEN /\ rounds' = Append(rounds, NewRound("u1", ccalls[inits[n].ccall].ret[1].id))
          /\ round' = Some(Len(rounds) + 1)
          /\ storedRound' = Some(Len(rounds) + 1)
          /\ inits' = [inits EXCEPT ![n].pc = "done"]
     ELSE /\ inits' = [inits EXCEPT ![n].pc = "failed"]
          /\ UNCHANGED <<rounds, round, storedRound>>
  /\ last' = NoLast
  /\ UNCHANGED <<card, courses, shots, calls, insights, ccalls, currentHole, holeShots,
                 loading, memo, alert, runs, screen>>

\* the updater addShot hands to setHoleShots:
\* newState[currentHole][type][outcome] += 1, when the path exists
AddShotUpdater_EveryHole(prev, hole, type, outcome) ==
  [h \in DOMAIN prev |-> [prev[h] EXCEPT ![type][outcome] = @ + 1]]
AddShotUpdater(prev, hole, type, outcome) ==
  IF hole \in DOMAIN prev
  THEN [prev EXCEPT ![hole][type][outcome] = @ + 1]
  ELSE prev

\* the presses on one cell since another handler ran: the ledger they
\* started from, the + presses, and the - presses that followed them
SameCell(type, outcome) == last.type = type /\ last.outcome = outcome

addShot(type, outcome) ==
  /\ UIReady /\ ~loading
  /\ holeShots' = AddShotUpdater(holeShots, currentHole, type, outcome)
  /\ LET more == last.op = "addShot" /\ SameCell(type, outcome)
     IN last' = [op |-> "addShot", type |-> type, outcome |-> outcome,
                 met |-> holeShots[currentHole][type][outcome],
                 start |-> IF more THEN last.start ELSE Some(holeShots),
                 adds |-> IF more THEN last.adds + 1 ELSE 1,
                 removes |-> 0]
  /\ UNCHANGED <<card, courses, rounds, shots, calls, insights, ccalls, currentHole, round,
                 loading, memo, alert, runs, inits, screen, storedRound>>

\* Math.max(0, count - 1)
RemoveOne_Unclamped(count) == count - 1
RemoveOne(count) == IF count - 1 > 0 THEN count - 1 ELSE 0

\* the updater removeShot hands to setHoleShots
RemoveShotUpdater_Reset(prev, hole, type, outcome) ==
  IF hole \in DOMAIN prev
  THEN [prev EXCEPT ![hole][type][outcome] = 0]
  ELSE prev
RemoveShotUpdater(prev, hole, type, outcome) ==
  IF hole \in DOMAIN prev
  THEN [prev EXCEPT ![hole][type][outcome] = RemoveOne(@)]
  ELSE prev

\* the handler itself; the table does not offer the minus button on a zero cell
removeShot(type, outcome) ==
  /\ UIReady /\ ~loading
  /\ holeShots' = RemoveShotUpdater(holeShots, currentHole, type, outcome)
  /\ LET more == /\ last.op \in {"addShot", "removeShot"}
                 /\ SameCell(type, outcome)
                 /\ last.removes < last.adds
     IN last' = [op |-> "removeShot", type |-> type, outcome |-> outcome,
                 met |-> holeShots[currentHole][type][outcome],
                 start |-> IF more THEN last.start ELSE Some(holeShots),
                 adds |-> IF more THEN last.adds ELSE 0,
                 removes |-> IF more THEN last.removes + 1 ELSE 1]
  /\ UNCHANGED <<card, courses, rounds, shots, calls, insights, ccalls, currentHole, round,
                 loading, memo, alert, runs, inits, screen, storedRound>>

\* the Next arrow and the left swipe
handleNextHole ==
  /\ UIReady
  /\ IF currentHole < TotalHoles
     THEN /\ currentHole' = currentHole + 1
          /\ memo' = Closure(currentHole + 1, round, holeShots)
          /\ alert' = alert
     ELSE /\ alert' = Some(memo)
          /\ UNCHANGED <<currentHole, memo>>
  /\ last' = NoLast
  /\ UNCHANGED <<card, courses, rounds, shots, calls, insights, ccalls, holeShots, round,
                 loading, runs, inits, screen, storedRound>>

\* the Previous arrow and the right swipe
handlePreviousHole ==
  /\ UIReady
  /\ currentHole > 1
  /\ currentHole' = currentHole - 1
  /\ memo' = Closure(currentHole - 1, round, holeShots)
  /\ last' = NoLast
  /\ UNCHANGED <<card, courses, rounds, shots, calls, insights, ccalls, holeShots, round,
                 loading, alert, runs, inits, screen, storedRound>>

\* finishRound from "if (currentHole < totalHoles)" on, for the execution i of
\* rs, cs being the calls made so far
AfterInsert(cl, i, rs, cs) ==
  IF cl.hole < TotalHoles
  THEN \* handleNextHole() of the execution's render, setLoading(false)
       /\ currentHole' = currentHole + 1
       /\ memo' = Closure(currentHole + 1, round, holeShots)
       /\ loading' = FALSE
       /\ runs' = [rs EXCEPT ![i].pc = "done"]
       /\ calls' = cs
  ELSE IF cl.round # Null
       THEN \* await completeRound(round.id)
            /\ calls' = Append(cs, NewCall("completeRound", "selectRound", cl.round[1]))
            /\ runs' = [rs EXCEPT ![i].pc = "complete", ![i].call = Len(cs) + 1]
            /\ loading' = TRUE
            /\ UNCHANGED <<currentHole, memo>>
       ELSE /\ loading' = FALSE
            /\ runs' = [rs EXCEPT ![i].pc = "done"]
            /\ calls' = cs
            /\ UNCHANGED <<currentHole, memo>>

\* finishRound up to its first await of the store
StartRun(cl) ==
  /\ Len(runs) < MaxRuns
  /\ LET i == Len(runs) + 1
         rs == Append(runs, [hole |-> cl.hole, round |-> cl.round, counts |-> cl.counts,
                             pc |-> "start", call |-> 0, insert |-> 0])
     IN IF cl.round = Null
        THEN AfterInsert(cl, i, rs, calls)
        ELSE IF cl.counts = Null
             THEN \* Object.keys(undefined) throws: catch, finally
                  /\ runs' = [rs EXCEPT ![i].pc = "failed"]
                  /\ loading' = FALSE
                  /\ UNCHANGED <<calls, currentHole, memo>>
             ELSE LET arr == BuildShots(cl.round[1], cl.hole, cl.counts[1])
                      c == InsertShotsStart(
                             [NewCall("insertShots", "insert", cl.round[1])
                                EXCEPT !.hole = cl.hole, !.shotCounts = cl.counts,
                                       !.arr = arr])
                      k == Len(calls) + 1
                  IN IF c.pc = "done"
                     THEN \* the call returned [] without a request to the store
                          AfterInsert(cl, i, [rs EXCEPT ![i].call = k, ![i].insert = k],
                                      Append(calls, c))
                     ELSE /\ calls' = Append(calls, c)
                          /\ runs' = [rs EXCEPT ![i].pc = "insert", ![i].call = k,
                                                ![i].insert = k]
                          /\ loading' = TRUE
                          /\ UNCHANGED <<currentHole, memo>>

\* the Complete Hole / Complete Round button
pressComplete ==
  /\ UIReady /\ ~loading
  /\ StartRun(Closure(currentHole, round, holeShots))
  /\ last' = NoLast
  /\ UNCHANGED <<card, courses, rounds, shots, insights, ccalls, holeShots, round, alert,
                 inits, screen, storedRound>>

\* the prompt's Finish Round button
alertFinish ==
  /\ alert # Null
  /\ StartRun(alert[1])
  /\ alert' = Null
  /\ last' = [NoLast EXCEPT !.op = "alertFinish"]
  /\ UNCHANGED <<card, courses, rounds, shots, insights, ccalls, holeShots, round,
                 inits, screen, storedRound>>

\* the prompt's Cancel button
alertCancel ==
  /\ alert # Null
  /\ alert' = Null
  /\ last' = NoLast
  /\ UNCHANGED <<card, courses, rounds, shots, calls, insights, ccalls, currentHole, holeShots,
                 round, loading, memo, runs, inits, screen, storedRound>>

\* an awaited call that threw takes finishRound to its catch
Rejected_Ignored(c) == FALSE
Rejected(c) == c.outcome = "throw"

\* finishRound resumes after await insertShots
finishRoundAfterInsert(i) ==
  /\ runs[i].pc = "insert"
  /\ calls[runs[i].call].pc = "done"
  /\ IF Rejected(calls[runs[i].call])
     THEN /\ runs' = [runs EXCEPT ![i].pc = "failed"]
          /\ loading' = FALSE
          /\ UNCHANGED <<calls, currentHole, memo>>
     ELSE AfterInsert(runs[i], i, runs, calls)
  /\ last' = NoLast
  /\ UNCHANGED <<card, courses, rounds, shots, insights, ccalls, holeShots, round, alert,
                 inits, screen, storedRound>>

\* finishRound resumes after await completeRound
finishRoundAfterComplete(i) ==
  /\ runs[i].pc = "complete"
  /\ calls[runs[i].call].pc = "done"
  /\ IF Rejected(calls[runs[i].call])
     THEN /\ runs' = [runs EXCEPT ![i].pc = "failed"]
          /\ loading' = FALSE
     ELSE /\ runs' = [runs EXCEPT ![i].pc = "removeItem"]
          /\ loading' = loading
  /\ last' = NoLast
  /\ UNCHANGED <<card, courses, rounds, shots, calls, insights, ccalls, currentHole, holeShots,
                 round, memo, alert, inits, screen, storedRound>>

\* await AsyncStorage.removeItem("currentRound"), navigate to the scorecard, finally
finishRoundNavigate(i, ok) ==
  /\ runs[i].pc = "removeItem"
  /\ IF ok
     THEN /\ storedRound' = Null
          /\ screen' = "scorecard"
          /\ runs' = [runs EXCEPT ![i].pc = "done"]
     ELSE /\ runs' = [runs EXCEPT ![i].pc = "failed"]
          /\ UNCHANGED <<storedRound, screen>>
  /\ loading' = FALSE
  /\ last' = NoLast
  /\ UNCHANGED <<card, courses, rounds, shots, calls, insights, ccalls, currentHole, holeShots,
                 round, memo, alert, inits>>

\* the scorecard's back button: the tracker is still mounted below it
goBack ==
  /\ screen = "scorecard"
  /\ screen' = "tracker"
  /\ last' = NoLast
  /\ UNCHANGED <<card, courses, rounds, shots, calls, insights, ccalls, currentHole, holeShots,
                 round, loading, memo, alert, runs, inits, storedRound>>

\* the cells the user of the whole-session specification records shots in
TrackedTypes == {ShotTypes[1]}

TrackedOutcomes == {Outcomes[1]}

NextTracker ==
  \/ \E n \in 1..Len(inits), name \in TrackerCourseNames : initializeRoundCourse(n, name)
  \/ \E n \in 1..Len(inits), ok \in BOOLEAN : initializeRoundCreate(n, ok)
  \/ \E t \in TrackedTypes, o \in TrackedOutcomes : LedgerTotal < MaxLedger /\ addShot(t, o)
  \/ \E t \in TrackedTypes, o \in TrackedOutcomes : removeShot(t, o)
  \/ handleNextHole
  \/ handlePreviousHole
  \/ pressComplete
  \/ alertFinish
  \/ alertCancel
  \/ \E i \in 1..Len(runs) : finishRoundAfterInsert(i)
  \/ \E i \in 1..Len(runs) : finishRoundAfterComplete(i)
  \/ \E i \in 1..Len(runs), ok \in BOOLEAN : finishRoundNavigate(i, ok)
  \/ goBack
  \/ \E k \in CourseCallIds, ok \in BOOLEAN : findOrCreateCourseSelect(k, ok)
  \/ \E k \in CourseCallIds, ok \in BOOLEAN : findOrCreateCourseInsert(k, ok)
  \/ \E k \in CallIds, ok \in BOOLEAN : insertShotsResolve(k, ok)
  \/ \E k \in CallIds, ok \in BOOLEAN : completeRoundSelectRound(k, ok)
  \/ \E k \in CallIds, ok \in BOOLEAN : completeRoundSelectCourse(k, ok)
  \/ \E k \in CallIds, ok \in BOOLEAN : completeRoundCount(k, ok)
  \/ \E k \in CallIds, ok \in BOOLEAN : completeRoundUpdate(k, ok)
  \/ \E k \in CallIds, t \in BOOLEAN : completeRoundInvoke(k, t)
  \/ \E n \in 1..Len(insights), st \in {"ok", "error", "rejected"} : insightsSettle(n, st)

SpecTracker == Init /\ [][NextTracker]_vars

\* the ledger handlers and the hole navigation alone, over every cell
NextLedger ==
  \/ \E t \in ShotTypeSet, o \in OutcomeSet : LedgerTotal < MaxLedger /\ addShot(t, o)
  \/ \E t \in ShotTypeSet, o \in OutcomeSet : removeShot(t, o)
  \/ handleNextHole
  \/ handlePreviousHole
  \/ alertCancel

SpecLedger == Init /\ [][NextLedger]_vars

\* the same handlers with room for several presses on a cell
NextPresses ==
  \/ \E t \in ShotTypeSet, o \in OutcomeSet : LedgerTotal < MaxPresses /\ addShot(t, o)
  \/ \E t \in ShotTypeSet, o \in OutcomeSet : removeShot(t, o)
  \/ handleNextHole
  \/ handlePreviousHole
  \/ alertCancel

SpecPresses == Init /\ [][NextPresses]_vars

(***************************************************************************)
(* The scorecard screen (ScorecardScreen.js).  fetchRoundData reads the    *)
(* round, its course and its shot records, then counts the records by hole *)
(* and by outcome; calculateTotals sums the hole results at each render.   *)
(* An empty object is Null here: holeResults before and without a count.   *)
(***************************************************************************)
\* the outcome columns of the later scorecard; the earlier one has Good, Neutral, Bad
NewOutcomeSet == {"On Target", "Slightly Off", "Recovery Needed"}

Vocabularies == {OutcomeSet, NewOutcomeSet}

\* the holes a tracker persists a ledger for: Next of the older tracker has no last hole
PersistHoles == 1..(TotalHoles + 1)

\* shots: .select(...).eq("round_id", roundId)
ShotsOfRound_AllRounds(roundId) == shots
ShotsOfRound(roundId) ==
  LET S == {x \in BagToSet(shots) : x.round_id = roundId}
  IN [x \in S |-> CopiesIn(x, shots)]

\* for (let i = 1; i <= totalHoles; i++) holeData[i] = {score: 0, outcomes: {...}}
InitHoleData(vocabulary) ==
  [i \in 1..TotalHoles |-> [score |-> 0, outcomes |-> [o \in vocabulary |-> 0]]]

\* one turn of shots.forEach
CountShot(holeData, shot) ==
  LET holeNum == shot.hole_number
      scored == [holeData EXCEPT ![holeNum].score = @ + 1]
  IN IF shot.result \in DOMAIN holeData[holeNum].outcomes
     THEN [scored EXCEPT ![holeNum].outcomes[shot.result] = @ + 1]
     ELSE scored

\* shots.forEach; holeData[holeNum] of a hole without an entry is undefined and
\* reading its score throws: the catch logs, setHoleResults is not reached
RECURSIVE ForEachShot(_, _)
ForEachShot(holeData, bag) ==
  IF BagToSet(bag) = {} THEN Some(holeData)
  ELSE LET shot == CHOOSE x \in BagToSet(bag) : TRUE
       IN IF shot.hole_number \notin DOMAIN holeData
          THEN Null
          ELSE ForEachShot(CountShot(holeData, shot), bag (-) SetToBag({shot}))

\* the screen is mounted with the route's roundId; without one it stops loading
openScorecard(roundId, vocabulary) ==
  /\ card.pc \in {"none", "shown"}
  /\ card' = IF roundId = Null
             THEN [NoCard EXCEPT !.pc = "shown", !.vocabulary = vocabulary]
             ELSE [NoCard EXCEPT !.pc = "round", !.roundId = roundId,
                                 !.vocabulary = vocabulary]
  /\ UNCHANGED <<courses, rounds, shots, calls, insights, ccalls, tracker>>

\* 1. fetch the round
fetchRound(ok) ==
  /\ card.pc = "round"
  /\ card' = [card EXCEPT !.pc = IF ok THEN "course" ELSE "shown"]
  /\ UNCHANGED <<courses, rounds, shots, calls, insights, ccalls, tracker>>

\* 2. fetch the course
fetchCourse(ok) ==
  /\ card.pc = "course"
  /\ card' = [card EXCEPT !.pc = IF ok THEN "shots" ELSE "shown"]
  /\ UNCHANGED <<courses, rounds, shots, calls, insights, ccalls, tracker>>

\* 3. fetch the shots, 4. count them; read and settled are history fields: the
\* records fetched, and the insertShots calls that had returned by then
fetchShots(ok) ==
  /\ card.pc = "shots"
  /\ card' = IF ok
             THEN [card EXCEPT !.pc = "shown",
                               !.read = Some(ShotsOfRound(card.roundId[1])),
                               !.settled = {k \in CallIds :
                                              /\ calls[k].op = "insertShots"
                                              /\ calls[k].pc = "done"
                                              /\ calls[k].outcome = "return"},
                               !.holeResults = ForEachShot(InitHoleData(card.vocabulary),
                                                           ShotsOfRound(card.roundId[1]))]
             ELSE [card EXCEPT !.pc = "shown"]
  /\ UNCHANGED <<courses, rounds, shots, calls, insights, ccalls, tracker>>

\* the last hole of the front nine
FrontNine == 9

\* the holes of a scorecard
ScorecardHoles == 18

RECURSIVE SumFn(_, _)
SumFn(f, S) ==
  IF S = {} THEN 0
  ELSE LET x == CHOOSE y \in S : TRUE IN f[x] + SumFn(f, S \ {x})

\* if (holeNum <= 9) frontNine += score; else backNine += score
IsFront_Eight(holeNum) == holeNum < FrontNine
IsFront(holeNum) == holeNum <= FrontNine

calculateTotals(holeResults, vocabulary) ==
  LET results == IF holeResults = Null THEN <<>> ELSE holeResults[1]
      keys == DOMAIN results
      frontNine == SumFn([h \in keys |-> IF IsFront(h) THEN results[h].score ELSE 0], keys)
      backNine == SumFn([h \in keys |-> IF IsFront(h) THEN 0 ELSE results[h].score], keys)
  IN [frontNine |-> frontNine, backNine |-> backNine, total |-> frontNine + backNine,
      outcomes |-> [o \in vocabulary |->
                      SumFn([h \in keys |-> results[h].outcomes[o]], keys)]]

\* the render of the loaded screen: const totals = calculateTotals()
renderTotals ==
  /\ card.pc = "shown"
  /\ card.totals = Null
  /\ card' = [card EXCEPT !.totals = Some(calculateTotals(card.holeResults, card.vocabulary))]
  /\ UNCHANGED <<courses, rounds, shots, calls, insights, ccalls, tracker>>

\* the store filled by trackers, and scorecards opened on its rounds
NextScorecard ==
  \/ \E p \in Profiles, cid \in CourseIds : createRound(p, cid)
  \/ \E r \in RoundIds, h \in PersistHoles, sc \in CallCounts : insertShotsCall(r, h, sc)
  \/ \E k \in CallIds, ok \in BOOLEAN : insertShotsResolve(k, ok)
  \/ \E r \in {Null} \cup {Some(i) : i \in RoundIds}, v \in Vocabularies : openScorecard(r, v)
  \/ \E ok \in BOOLEAN : fetchRound(ok)
  \/ \E ok \in BOOLEAN : fetchCourse(ok)
  \/ \E ok \in BOOLEAN : fetchShots(ok)
  \/ renderTotals

SpecScorecard == Init /\ [][NextScorecard]_vars

\* the round service under any callers, and scorecards opened on its rounds
NextGross ==
  \/ Next
  \/ \E r \in RoundIds : openScorecard(Some(r), OutcomeSet)
  \/ \E ok \in BOOLEAN : fetchRound(ok)
  \/ \E ok \in BOOLEAN : fetchCourse(ok)
  \/ \E ok \in BOOLEAN : fetchShots(ok)
  \/ renderTotals

SpecGross == Init /\ [][NextGross]_vars

\* hole results of a full scorecard: every hole at MaxPerHole but one
HoleResult(score, outcome, n) ==
  [score |-> score, outcomes |-> [o \in NewOutcomeSet |-> IF o = outcome THEN n ELSE 0]]

UniformResults == [h \in 1..ScorecardHoles |-> HoleResult(MaxPerHole, "On Target", MaxPerHole)]

TotalsInputs ==
  {[UniformResults EXCEPT ![q[1]] = HoleResult(q[2], q[3], q[4])] :
     q \in {x \in (1..ScorecardHoles) \X (0..MaxPerHole) \X NewOutcomeSet \X (0..MaxPerHole) :
              x[4] <= x[2]}}

InitTotals ==
  /\ courses = SeedCourses
  /\ rounds = <<>>
  /\ shots = EmptyBag
  /\ calls = <<>>
  /\ insights = <<>>
  /\ ccalls = <<>>
  /\ TrackerMounted
  /\ card \in {[NoCard EXCEPT !.pc = "shown", !.vocabulary = NewOutcomeSet,
                              !.holeResults = Some(hr)] : hr \in TotalsInputs}

NextTotals == renderTotals

SpecTotals == InitTotals /\ [][NextTotals]_vars

(***************************************************************************)
(* Write side and read side together: on a store that holds two new rounds *)
(* each hole of a round is finished at most once, by one insertShots call  *)
(* with the hole's ledger, and scorecards are opened on the rounds.         *)
(***************************************************************************)
\* the ledgers of the holes finished here
TripCounts ==
  {[t \in ShotTypeSet |-> [o \in OutcomeSet |-> IF o = x /\ t \in T THEN 1 ELSE 0]] :
     x \in {Outcomes[1], Outcomes[Len(Outcomes)]}, T \in SUBSET ShotTypeSet}

NotFinished(r, h) ==
  \A k \in CallIds : ~(calls[k].op = "insertShots" /\ calls[k].round_id = r /\ calls[k].hole = h)

NextRoundTrip ==
  \/ \E r \in RoundIds, h \in Holes, sc \in TripCounts :
       NotFinished(r, h) /\ insertShotsCall(r, h, sc)
  \/ \E k \in CallIds, ok \in BOOLEAN : insertShotsResolve(k, ok)
  \/ \E r \in RoundIds, v \in Vocabularies : openScorecard(Some(r), v)
  \/ \E ok \in BOOLEAN : fetchRound(ok)
  \/ \E ok \in BOOLEAN : fetchCourse(ok)
  \/ \E ok \in BOOLEAN : fetchShots(ok)

SpecRoundTrip == InitFlatten /\ [][NextRoundTrip]_vars

(***************************************************************************)
(* One round played in order: the user records shots on the hole shown and *)
(* presses the Complete button once on each hole; no arrows, no swipes, no *)
(* way back from the scorecard; every store call succeeds.                 *)
(***************************************************************************)
Pressed(h) == \E i \in 1..Len(runs) : runs[i].hole = h

NextSession ==
  \/ \E n \in 1..Len(inits), name \in TrackerCourseNames : initializeRoundCourse(n, name)
  \/ \E n \in 1..Len(inits) : initializeRoundCreate(n, TRUE)
  \/ \E k \in CourseCallIds : findOrCreateCourseSelect(k, TRUE)
  \/ \E k \in CourseCallIds : findOrCreateCourseInsert(k, TRUE)
  \/ \E t \in ShotTypeSet, o \in TrackedOutcomes :
       CountsTotal(holeShots[currentHole]) <= MaxCount /\ addShot(t, o)
  \/ \E t \in ShotTypeSet, o \in TrackedOutcomes : removeShot(t, o)
  \/ ~Pressed(currentHole) /\ pressComplete
  \/ \E i \in 1..Len(runs) : finishRoundAfterInsert(i)
  \/ \E i \in 1..Len(runs) : finishRoundAfterComplete(i)
  \/ \E i \in 1..Len(runs) : finishRoundNavigate(i, TRUE)
  \/ \E k \in CallIds : insertShotsResolve(k, TRUE)
  \/ \E k \in CallIds : completeRoundSelectRound(k, TRUE)
  \/ \E k \in CallIds : completeRoundSelectCourse(k, TRUE)
  \/ \E k \in CallIds : completeRoundCount(k, TRUE)
  \/ \E k \in CallIds : completeRoundUpdate(k, TRUE)
  \/ \E k \in CallIds, t \in BOOLEAN : completeRoundInvoke(k, t)
  \/ \E n \in 1..Len(insights), st \in {"ok", "error", "rejected"} : insightsSettle(n, st)

SpecSession == Init /\ [][NextSession]_vars

\* onAuthStateChange: setUser(session?.user || null) with the user object of a
\* new session; the tracker's effect on [user] runs initializeRound again
authUserChanged ==
  /\ Len(inits) < MaxInits
  /\ inits' = Append(inits, [pc |-> "getItem", ccall |-> 0])
  /\ last' = NoLast
  /\ UNCHANGED <<card, courses, rounds, shots, calls, insights, ccalls, currentHole, holeShots,
                 round, loading, memo, alert, runs, screen, storedRound>>

\* a session during which the auth listener delivers a user object
NextAuth ==
  \/ NextSession
  \/ authUserChanged

SpecAuth == Init /\ [][NextAuth]_vars

(***************************************************************************)
(* Properties of the round store and the round service.                    *)
(***************************************************************************)
\* the par of the round's course, 72 when the course has none
ParOfRound(r) ==
  LET par == courses[rounds[r].course_id].par
  IN IF par = Null THEN 72 ELSE par[1]

\* the round's record is the one some completeRound call wrote
WrittenByACall(r) ==
  \E k \in CallIds : calls[k].op = "completeRound" /\ calls[k].round_id = r
                     /\ calls[k].written = Some(rounds[r])

\* C1: in every state of the round store an incomplete round has gross_shots
\* and score null, and a complete round has score = gross_shots - par, with
\* par the par of the round's course, 72 when it has none.
C1_RoundScoreInvariant ==
  \A r \in RoundIds :
    /\ ~rounds[r].is_complete => rounds[r].gross_shots = Null /\ rounds[r].score = Null
    /\ rounds[r].is_complete =>
         /\ rounds[r].gross_shots # Null
         /\ rounds[r].score # Null
         /\ rounds[r].score[1] = rounds[r].gross_shots[1] - ParOfRound(r)

\* a round completed by the older completeRound
C1_Witness ==
  \E k \in CallIds : /\ calls[k].op = "completeRoundLegacy"
                     /\ calls[k].outcome = "return"
                     /\ rounds[calls[k].round_id].is_complete

\* C2: a completeRound that returned has written and returned the round with
\* the completion flag set, gross_shots the number of the round's persisted
\* records when the count was taken (the present number less the records
\* inserted since), and score that count less the par of the course (72 when
\* the course has none); the round's record is one a completeRound call wrote.
C2_CompleteRoundResult ==
  \A k \in CallIds :
    (calls[k].op = "completeRound" /\ calls[k].outcome = "return") =>
      LET r == calls[k].round_id
          g == CountShots(r) - calls[k].since
      IN /\ calls[k].ret = calls[k].written
         /\ calls[k].ret # Null
         /\ calls[k].ret[1].is_complete
         /\ calls[k].ret[1].gross_shots = Some(g)
         /\ calls[k].ret[1].score = Some(g - ParOfRound(r))
         /\ rounds[r].is_complete
         /\ WrittenByACall(r)

\* a completeRound returned for a round that holds records
C2_Witness ==
  \E k \in CallIds : /\ calls[k].op = "completeRound"
                     /\ calls[k].outcome = "return"
                     /\ calls[k].ret[1].gross_shots[1] > 0
                     /\ rounds[calls[k].round_id] = calls[k].ret[1]

\* the multiset the counts of one hole describe: count copies of each cell's record
CountsBag(round_id, hole_number, shotCounts) ==
  LET cells == {<<t, o>> \in ShotTypeSet \X OutcomeSet : shotCounts[t][o] > 0}
  IN [rec \in {ShotRecord(round_id, hole_number, c[1], c[2]) : c \in cells}
        |-> shotCounts[rec.shot_type][rec.result]]

\* C3: the records insertShots hands to the store are, as a multiset, count
\* copies of (round, hole, shot type, outcome) for every cell of the hole, and
\* none for a cell with count 0; after a successful insert the store holds them.
C3_FlattenMultiset ==
  \A k \in CallIds :
    calls[k].op = "insertShots" =>
      LET want == CountsBag(calls[k].round_id, calls[k].hole, calls[k].shotCounts[1])
      IN /\ calls[k].pc = "insert" => SeqToBag(calls[k].arr) = want
         /\ calls[k].outcome = "return" => /\ SeqToBag(calls[k].ret) = want
                                           /\ shots = want
         /\ calls[k].outcome = "throw" => shots = EmptyBag

\* drive: Good 2, Neutral 0, Bad 1 on the last hole, inserted
C3_Witness ==
  \E k \in CallIds :
    /\ calls[k].op = "insertShots" /\ calls[k].outcome = "return"
    /\ calls[k].hole = TotalHoles
    /\ calls[k].shotCounts[1] =
         [ZeroCounts EXCEPT !["drive"]["Good"] = 2, !["drive"]["Bad"] = 1]
    /\ BagCardinality(shots) = 3

\* C8: a completeRound whose round update was applied returns the record it
\* wrote, whether invoking the insights function threw, returned an error or
\* was rejected; and the round of a failed insights call is still a record a
\* completeRound call wrote.
C8_InsightsFailureIsolated ==
  /\ \A k \in CallIds :
       (calls[k].updated /\ calls[k].pc = "done") =>
          /\ calls[k].outcome = "return"
          /\ calls[k].ret = calls[k].written
  /\ \A n \in 1..Len(insights) :
       /\ rounds[insights[n].roundId].is_complete
       /\ WrittenByACall(insights[n].roundId)

\* one completeRound whose invoke threw and one whose insights call failed later
C8_Witness ==
  /\ \E k \in CallIds : calls[k].invokeThrew /\ calls[k].outcome = "return"
  /\ \E n \in 1..Len(insights) : insights[n].status \in {"error", "rejected"}

RECURSIVE InsertedFor(_, _)
InsertedFor(r, k) ==
  IF k = 0 THEN 0
  ELSE InsertedFor(r, k - 1)
       + (IF /\ calls[k].op = "insertShots" /\ calls[k].round_id = r
             /\ calls[k].outcome = "return"
          THEN Len(calls[k].ret) ELSE 0)

\* C9: a completeRound whose round lookup, course lookup, count or update
\* failed has thrown and has written nothing: its round, unless another call
\* completed it, has the flag false and gross_shots and score null; the
\* persisted records are all there.
C9_FailurePropagates ==
  /\ \A k \in CallIds :
       (calls[k].op = "completeRound" /\ calls[k].failedAt # "") =>
          /\ calls[k].pc = "done" /\ calls[k].outcome = "throw"
          /\ ~calls[k].updated
          /\ (\A j \in CallIds : calls[j].round_id = calls[k].round_id => ~calls[j].updated)
               => rounds[calls[k].round_id] =
                    NewRound(rounds[calls[k].round_id].profile_id,
                             rounds[calls[k].round_id].course_id)
  /\ \A r \in RoundIds : CountShots(r) = InsertedFor(r, Len(calls))

\* a completeRound failed at the update and a later one completed the round
C9_Witness ==
  \E k, j \in CallIds :
    /\ k < j
    /\ calls[k].op = "completeRound" /\ calls[k].failedAt = "update"
    /\ calls[j].op = "completeRound" /\ calls[j].round_id = calls[k].round_id
    /\ calls[j].outcome = "return"
    /\ rounds[calls[k].round_id].is_complete

(***************************************************************************)
(* Properties of the course service.                                       *)
(***************************************************************************)
UpperChar(ch) == CASE ch = "a" -> "A" [] ch = "b" -> "B" [] OTHER -> ch
\* the two names are the same but for the case of their letters
SameButForCase(n1, n2) ==
  /\ Len(n1) = Len(n2)
  /\ \A i \in 1..Len(n1) : UpperChar(n1[i]) = UpperChar(n2[i])

\* C5: with one caller, two findOrCreateCourse calls that returned and whose
\* names differ at most in letter case returned the same course id, and the
\* later call inserted nothing.
C5_SameCourseForCaseVariants ==
  \A j, k \in CourseCallIds :
    (/\ j < k
     /\ ccalls[j].outcome = "return" /\ ccalls[k].outcome = "return"
     /\ SameButForCase(ccalls[j].name, ccalls[k].name)) =>
       /\ ccalls[j].ret[1].id = ccalls[k].ret[1].id
       /\ ccalls[k].inserted = Null

\* the first call created the course, the second asked in another case
C5_Witness ==
  \E j, k \in CourseCallIds :
    /\ j < k
    /\ ccalls[j].outcome = "return" /\ ccalls[j].inserted # Null
    /\ ccalls[k].outcome = "return"
    /\ ccalls[j].name # ccalls[k].name
    /\ SameButForCase(ccalls[j].name, ccalls[k].name)

\* C6: findOrCreateCourse inserts only when its lookup found no course with
\* the normalized name, and a call that found one returned it and inserted
\* nothing, whatever the store holds.
C6_InsertOnlyWhenAbsent ==
  \A k \in CourseCallIds :
    /\ ccalls[k].inserted # Null => ccalls[k].matched = {}
    /\ (ccalls[k].outcome = "return" /\ ccalls[k].matched # {}) =>
         /\ ccalls[k].inserted = Null
         /\ ccalls[k].ret[1].id \in ccalls[k].matched

\* a call whose lookup met two courses with the normalized name
C6_Witness ==
  \E k \in CourseCallIds :
    Cardinality(ccalls[k].matched) = 2 /\ ccalls[k].pc = "done"

\* C7: every course findOrCreateCourse inserted has the requested name in
\* lower case, and a call that returned while some stored course had the
\* requested name but for case returned such a course and inserted nothing.
C7_CaseInsensitiveLookup ==
  \A k \in CourseCallIds :
    /\ ccalls[k].inserted # Null =>
         /\ SameButForCase(courses[ccalls[k].inserted[1]].name, ccalls[k].name)
         /\ \A i \in 1..Len(ccalls[k].name) :
              courses[ccalls[k].inserted[1]].name[i] \in {"a", "b"}
    /\ (ccalls[k].outcome = "return" /\ ccalls[k].present # {}) =>
         /\ ccalls[k].inserted = Null
         /\ ccalls[k].ret[1].id \in ccalls[k].present

\* the stored name of the seeded course was asked for and the call returned
C7_Witness ==
  \E k \in CourseCallIds :
    /\ ccalls[k].name = courses[1].name
    /\ ccalls[k].outcome = "return"
    /\ 1 \in ccalls[k].present

(***************************************************************************)
(* Properties of the tracker screen.                                       *)
(***************************************************************************)
\* C4: after any addShot, removeShot and hole navigation every cell of the
\* ledger holds a count >= 0, and a removeShot that met 0 in its cell left 0
\* there.
C4_LedgerNeverNegative ==
  /\ \A h \in DOMAIN holeShots : \A t \in ShotTypeSet : \A o \in OutcomeSet :
       holeShots[h][t][o] >= 0
  /\ (last.op = "removeShot" /\ last.met = 0) =>
       holeShots[currentHole][last.type][last.outcome] = 0

\* removeShot has acted on a cell holding 0, on a hole reached by navigation,
\* after the cell had held a shot on another hole
C4_Witness ==
  /\ last.op = "removeShot"
  /\ last.met = 0
  /\ currentHole > 1
  /\ holeShots[currentHole][last.type][last.outcome] = 0
  /\ holeShots[1][last.type][last.outcome] > 0

UpdatesOf(r) ==
  {k \in CallIds : /\ calls[k].op = "completeRound"
                   /\ calls[k].round_id = r
                   /\ calls[k].updated}

\* C10: over any interleaving of tracker actions at most one update is ever
\* applied to a round, so none is applied to a round that is already complete.
C10_RoundUpdatedOnce ==
  \A r \in RoundIds : Cardinality(UpdatesOf(r)) <= 1

\* the tracker has completed its round and shows the scorecard
C10_Witness ==
  /\ round # Null
  /\ screen = "scorecard"
  /\ Cardinality(UpdatesOf(round[1])) = 1
  /\ rounds[round[1]].is_complete

(***************************************************************************)
(* Properties of the scorecard screen.                                     *)
(***************************************************************************)
RecordsAt(bag, h) == {x \in BagToSet(bag) : x.hole_number = h}

Copies(bag, S) == BagCardinality([x \in S |-> CopiesIn(x, bag)])

\* C11: a scorecard that fetched the records of its round shows, for every
\* hole, score = the number of the records of the hole, and per outcome of its
\* vocabulary the number of them with that outcome; a record with another
\* outcome counts in the score only, so the outcome counters sum to at most
\* the score, and to the score exactly when every record is recognized.
C11_AggregationCounts ==
  (card.pc = "shown" /\ card.read # Null) =>
     /\ card.holeResults # Null
     /\ \A h \in 1..TotalHoles :
          LET hd == card.holeResults[1][h]
              recs == RecordsAt(card.read[1], h)
              tally == SumFn(hd.outcomes, DOMAIN hd.outcomes)
          IN /\ hd.score = Copies(card.read[1], recs)
             /\ \A o \in card.vocabulary :
                  hd.outcomes[o] = Copies(card.read[1], {x \in recs : x.result = o})
             /\ tally <= hd.score
             /\ (tally = hd.score) <=> (\A x \in recs : x.result \in card.vocabulary)

\* a scorecard counted a record whose outcome is not in its vocabulary
C11_Witness ==
  /\ card.pc = "shown"
  /\ card.read # Null
  /\ card.holeResults # Null
  /\ \E h \in 1..TotalHoles :
       /\ card.holeResults[1][h].score > 0
       /\ \E x \in RecordsAt(card.read[1], h) : x.result \notin card.vocabulary

ScoreOf(h) == card.holeResults[1][h].score

\* C12: the totals of a scorecard are frontNine = the scores of holes 1..9
\* summed, backNine = those of holes 10..18, total = frontNine + backNine, and
\* per outcome the sum of the outcome's counter over the holes.
C12_Totals ==
  (card.totals # Null /\ card.holeResults # Null) =>
     LET t == card.totals[1]
         n == Len(card.holeResults[1])
         front == SumSeq([i \in 1..(IF n < 9 THEN n ELSE 9) |-> ScoreOf(i)])
         all == SumSeq([i \in 1..n |-> ScoreOf(i)])
     IN /\ t.frontNine = front
        /\ t.backNine = all - front
        /\ t.total = t.frontNine + t.backNine
        /\ \A o \in card.vocabulary :
             t.outcomes[o] = SumSeq([i \in 1..n |-> card.holeResults[1][i].outcomes[o]])

\* the totals of the scorecard with MaxPerHole on each of its holes
C12_Witness ==
  /\ card.totals # Null
  /\ card.holeResults = Some(UniformResults)
  /\ card.totals[1].frontNine = FrontNine * MaxPerHole
  /\ card.totals[1].backNine = (ScorecardHoles - FrontNine) * MaxPerHole
  /\ card.totals[1].total = ScorecardHoles * MaxPerHole

\* the ledger cells the holes of a round were finished with, by the calls of K
FinishedWith(K, r, h) ==
  {k \in K : calls[k].round_id = r /\ calls[k].hole = h}

\* C14: a scorecard whose vocabulary is the ledger's shows, for every hole of
\* a round finished at most once per hole, score = the sum of the ledger of
\* the hole over all its cells, and per outcome the sum of the ledger's counts
\* of that outcome over the shot types (0 for a hole not finished).
C14_ReadReconstructsWrite ==
  (card.pc = "shown" /\ card.read # Null /\ card.vocabulary = OutcomeSet) =>
     /\ card.holeResults # Null
     /\ \A h \in Holes :
          LET K == FinishedWith(card.settled, card.roundId[1], h)
          IN /\ Cardinality(K) <= 1
             /\ K = {} => /\ card.holeResults[1][h].score = 0
                          /\ \A o \in OutcomeSet : card.holeResults[1][h].outcomes[o] = 0
             /\ \A k \in K :
                  /\ card.holeResults[1][h].score = CountsTotal(calls[k].shotCounts[1])
                  /\ \A o \in OutcomeSet :
                       card.holeResults[1][h].outcomes[o] =
                         SumSeq([i \in 1..Len(ShotTypes) |->
                                   calls[k].shotCounts[1][ShotTypes[i]][o]])

\* the scorecard of a round with every hole finished with shots, one of
\* them with two shot types of the same outcome
C14_Witness ==
  /\ card.pc = "shown" /\ card.read # Null /\ card.vocabulary = OutcomeSet
  /\ \A h \in Holes : card.holeResults[1][h].score > 0
  /\ \E h \in Holes : \E o \in OutcomeSet :
       /\ card.holeResults[1][h].outcomes[o] = 2
       /\ \E k \in FinishedWith(card.settled, card.roundId[1], h) :
            \A t \in ShotTypeSet : calls[k].shotCounts[1][t][o] = 1

\* the Complete button was pressed on every hole and the press on the last
\* hole has run to its end
SessionOver ==
  /\ \A h \in Holes : Pressed(h)
  /\ \E i \in 1..Len(runs) : runs[i].hole = TotalHoles /\ runs[i].pc \in {"done", "failed"}

\* C13: after Complete on every hole in order, all store calls succeeding,
\* the records persisted for each hole are the hole's ledger, and the round
\* is complete with gross_shots = the sum of the ledger and score =
\* gross_shots - par.
C13_EndToEnd ==
  SessionOver =>
     /\ round # Null
     /\ \A h \in Holes :
          [x \in RecordsAt(ShotsOfRound(round[1]), h) |-> CopiesIn(x, shots)]
            = CountsBag(round[1], h, holeShots[h])
     /\ rounds[round[1]].is_complete
     /\ rounds[round[1]].gross_shots = Some(LedgerTotal)
     /\ rounds[round[1]].score = Some(LedgerTotal - ParOfRound(round[1]))

\* a session that ended with shots recorded on every hole and all of them
\* persisted and counted
C13_Witness ==
  /\ SessionOver
  /\ round # Null
  /\ \A h \in Holes : CountsTotal(holeShots[h]) > 1
  /\ rounds[round[1]].is_complete
  /\ rounds[round[1]].gross_shots = Some(LedgerTotal)
  /\ rounds[round[1]].score = Some(LedgerTotal - ParOfRound(round[1]))
  /\ screen = "scorecard"

(***************************************************************************)
(* Errors and races of the course service.                                 *)
(***************************************************************************)
InsertedBy(K) == {ccalls[k].inserted[1] : k \in {j \in K : ccalls[j].inserted # Null}}

\* C15: a lookup the store answered with an error ends the call with a throw
\* and without an insert; a lookup that matched no row leads to the insert;
\* a failed insert ends the call with a throw; no request is sent twice; the
\* table grows by the successful inserts only.
C15_CourseErrorsPropagate ==
  /\ \A k \in CourseCallIds :
       LET c == ccalls[k]
       IN /\ c.lookups <= 1 /\ c.inserts <= 1
          /\ (c.lookups = 1 /\ ~c.lookupOk) =>
               /\ c.pc = "done" /\ c.outcome = "throw"
               /\ c.inserts = 0 /\ c.inserted = Null
          /\ (c.lookups = 1 /\ c.lookupOk /\ c.matched = {}) =>
               /\ c.pc \in {"insert", "done"}
               /\ c.pc = "done" => c.inserts = 1
          /\ (c.inserts = 1 /\ c.inserted = Null) =>
               c.pc = "done" /\ c.outcome = "throw"
          /\ c.outcome = "throw" => c.ret = Null
  /\ Len(courses) = Len(SeedCourses) + Cardinality(InsertedBy(CourseCallIds))

\* one call ended by a failed lookup, one by a failed insert after a lookup
\* that matched no row, and the table as it was
C15_Witness ==
  /\ \E k \in CourseCallIds :
       ccalls[k].pc = "done" /\ ccalls[k].lookups = 1 /\ ~ccalls[k].lookupOk
  /\ \E k \in CourseCallIds :
       /\ ccalls[k].pc = "done" /\ ccalls[k].outcome = "throw"
       /\ ccalls[k].lookupOk /\ ccalls[k].matched = {} /\ ccalls[k].inserts = 1
  /\ courses = SeedCourses

\* C16: calls whose lookups matched no row insert one row each, with their
\* normalized name, so two calls for one new name that both looked up before
\* either inserted leave two rows of that name.
C16_RaceInsertsTwice ==
  /\ \A k \in CourseCallIds :
       (ccalls[k].inserted # Null) =>
          /\ ccalls[k].inserted[1] \in CourseIds
          /\ courses[ccalls[k].inserted[1]].name = ccalls[k].normalizedName
  /\ \A k, j \in CourseCallIds :
       (k # j /\ ccalls[k].inserted # Null /\ ccalls[j].inserted # Null) =>
          /\ ccalls[k].inserted # ccalls[j].inserted
          /\ ccalls[k].normalizedName = ccalls[j].normalizedName =>
               Cardinality(MatchingCourses(ccalls[k].normalizedName)) >= 2

\* two calls for the same new name, both answered "no row", both inserted:
\* the table holds two rows of that name
C16_Witness ==
  \E k, j \in CourseCallIds :
    /\ k # j
    /\ ccalls[k].normalizedName = ccalls[j].normalizedName
    /\ ccalls[k].matched = {} /\ ccalls[j].matched = {}
    /\ ccalls[k].inserted # Null /\ ccalls[j].inserted # Null
    /\ Cardinality(MatchingCourses(ccalls[k].normalizedName)) = 2

(***************************************************************************)
(* Repeated completion and the insights call.                              *)
(***************************************************************************)
CompletionsOf(r) ==
  {k \in CallIds : calls[k].op = "completeRound" /\ calls[k].round_id = r /\ calls[k].updated}

InsightsOf(r) == {n \in 1..Len(insights) : insights[n].roundId = r}

\* C17: two completeRound calls on a round with no record stored between
\* their counts write the same round record; every call that updated the
\* round and ended has triggered the insights call once.
C17_RecompleteOverwritesEqual ==
  /\ \A k, j \in CallIds :
       (/\ calls[k].op = "completeRound" /\ calls[j].op = "completeRound"
        /\ calls[k].round_id = calls[j].round_id
        /\ calls[k].updated /\ calls[j].updated
        /\ calls[k].since = calls[j].since) =>
          calls[k].written = calls[j].written
  /\ \A r \in RoundIds :
       Cardinality(InsightsOf(r))
         + Cardinality({k \in CompletionsOf(r) : calls[k].invokeThrew})
         = Cardinality({k \in CompletionsOf(r) : calls[k].pc = "done"})

\* a round with records completed twice: both calls wrote gross_shots 2, the
\* record is what they wrote, and the insights call was triggered twice
C17_Witness ==
  \E k, j \in CallIds :
    /\ k < j
    /\ calls[k].round_id = calls[j].round_id
    /\ calls[k].op = "completeRound" /\ calls[j].op = "completeRound"
    /\ calls[k].outcome = "return" /\ calls[j].outcome = "return"
    /\ calls[k].written = calls[j].written
    /\ calls[k].written = Some(rounds[calls[k].round_id])
    /\ rounds[calls[k].round_id].gross_shots = Some(2)
    /\ Cardinality(InsightsOf(calls[k].round_id)) = 2

\* C18: the insights function is invoked only by a call whose update of the
\* round succeeded, hence only for a complete round, and the call returns in
\* the step that issues the invocation, while it is pending.
C18_InsightsAfterUpdate ==
  /\ [](/\ \A n \in 1..Len(insights) :
             /\ rounds[insights[n].roundId].is_complete
             /\ CompletionsOf(insights[n].roundId) # {}
        /\ \A r \in RoundIds :
             Cardinality(InsightsOf(r)) <= Cardinality(CompletionsOf(r))
        /\ \A k \in CallIds :
             (calls[k].op = "completeRound" /\ calls[k].pc = "invoke") => calls[k].updated)
  /\ [][\A k \in CallIds :
          (calls[k].pc = "invoke" /\ calls'[k].pc = "done") =>
             /\ calls'[k].outcome = "return"
             /\ calls'[k].ret = calls[k].written
             /\ insights' # insights =>
                  /\ Len(insights') = Len(insights) + 1
                  /\ insights'[Len(insights')].status = "pending"
                  /\ insights'[Len(insights')].roundId = calls[k].round_id]_vars

\* a completeRound has returned and the insights call it issued is pending
C18_Witness ==
  \E k \in CallIds : \E n \in 1..Len(insights) :
    /\ calls[k].op = "completeRound" /\ calls[k].outcome = "return"
    /\ insights[n].roundId = calls[k].round_id
    /\ insights[n].status = "pending"
    /\ Cardinality(InsightsOf(calls[k].round_id)) = 1
    /\ Cardinality(CompletionsOf(calls[k].round_id)) = 1

(***************************************************************************)
(* The ledger against the store, over every navigation of the tracker.     *)
(***************************************************************************)
Persisted(r, h, type, outcome) == CopiesIn(ShotRecord(r, h, type, outcome), shots)

\* C19: when the tracker's round is complete, every hole's every cell has at
\* least as many persisted records as the ledger counts, and gross_shots is
\* at least the sum of the ledger, whatever the navigation was.
C19_AllLedgerPersisted ==
  (round # Null /\ rounds[round[1]].is_complete) =>
     /\ \A h \in Holes : \A t \in ShotTypeSet, o \in OutcomeSet :
          Persisted(round[1], h, t, o) >= holeShots[h][t][o]
     /\ rounds[round[1]].gross_shots # Null
     /\ rounds[round[1]].gross_shots[1] >= LedgerTotal

\* a round completed through Complete Hole and Complete Round with its
\* recorded shot persisted and counted
C19_Witness ==
  /\ round # Null /\ rounds[round[1]].is_complete
  /\ LedgerTotal > 0
  /\ \A h \in Holes : \A t \in ShotTypeSet, o \in OutcomeSet :
       Persisted(round[1], h, t, o) = holeShots[h][t][o]
  /\ rounds[round[1]].gross_shots = Some(LedgerTotal)

\* C20: for each hole and cell the number of persisted records never exceeds
\* the count the ledger holds for the cell.
C20_PersistedAtMostOnce ==
  round # Null =>
     \A h \in Holes : \A t \in ShotTypeSet, o \in OutcomeSet :
        Persisted(round[1], h, t, o) <= holeShots[h][t][o]

\* a finished hole whose recorded shot is persisted once, the tracker having
\* moved on to the next hole
C20_Witness ==
  /\ round # Null
  /\ currentHole = 2
  /\ \E t \in ShotTypeSet, o \in OutcomeSet :
       /\ holeShots[1][t][o] = 1
       /\ Persisted(round[1], 1, t, o) = 1
  /\ \E i \in 1..Len(runs) : runs[i].hole = 1 /\ runs[i].pc = "done"

(***************************************************************************)
(* The saves of a tracker session.                                         *)
(***************************************************************************)
\* the finishRound executions awaiting insertShots or completeRound
InFlight == {i \in 1..Len(runs) : runs[i].pc \in {"insert", "complete"}}

\* C21: at most one finishRound is awaiting the store at any time, and in a
\* step that leaves one waiting where it was no other finishRound starts, the
\* ledger is not changed and the current hole does not change.
C21_OneSaveInFlight ==
  /\ [](Cardinality(InFlight) <= 1)
  /\ [][(\E i \in InFlight : runs'[i].pc = runs[i].pc) =>
          /\ Len(runs') = Len(runs)
          /\ holeShots' = holeShots
          /\ currentHole' = currentHole]_vars

\* a save is awaiting the store, the saving indicator is shown and the hole
\* being saved is the current hole
C21_Witness ==
  /\ Cardinality(InFlight) = 1
  /\ loading
  /\ \E i \in InFlight : runs[i].hole = currentHole /\ runs[i].counts = Some(holeShots[currentHole])

\* C22: a finishRound started on a hole N below the last one ends with the
\* current hole at exactly N + 1, and only once its insert has returned; it
\* does not move the hole when it starts to wait; when its insert throws
\* the current hole is N and the hole's ledger is the one it submitted.
C22_AdvanceAfterInsert ==
  [][\A i \in 1..Len(runs') :
       ((i > Len(runs) \/ runs[i].pc # runs'[i].pc) /\ runs'[i].hole < TotalHoles) =>
          /\ runs'[i].pc = "done" =>
               /\ currentHole' = runs'[i].hole + 1
               /\ runs'[i].insert # 0 => calls'[runs'[i].insert].outcome = "return"
          /\ runs'[i].pc = "insert" => currentHole' = runs'[i].hole
          /\ runs'[i].pc = "failed" =>
               /\ currentHole' = runs'[i].hole
               /\ CountsOf(holeShots', runs'[i].hole) = runs'[i].counts]_vars

\* hole 1 was submitted twice with the same counts: the first insert threw and
\* the hole stayed 1, the second returned and the hole is 2
C22_Witness ==
  \E i, j \in 1..Len(runs) :
    /\ i < j
    /\ runs[i].hole = 1 /\ runs[j].hole = 1
    /\ runs[i].pc = "failed" /\ runs[j].pc = "done"
    /\ runs[i].counts = runs[j].counts
    /\ runs[j].insert # 0 /\ calls[runs[j].insert].outcome = "return"
    /\ calls[runs[i].insert].outcome = "throw"
    /\ currentHole = 2

(***************************************************************************)
(* The ledger handlers.                                                    *)
(***************************************************************************)
\* C23: a step of addShot or removeShot leaves every other hole, every other
\* cell of the current hole, the current hole and the round as they were;
\* addShot raises its cell by exactly 1, whatever the cell holds.
C23_OneCellOnly ==
  [][last'.op \in {"addShot", "removeShot"} =>
       /\ currentHole' = currentHole
       /\ round' = round
       /\ \A h \in Holes : \A t \in ShotTypeSet, o \in OutcomeSet :
            (h # currentHole \/ t # last'.type \/ o # last'.outcome) =>
               holeShots'[h][t][o] = holeShots[h][t][o]
       /\ last'.op = "addShot" =>
            holeShots'[currentHole][last'.type][last'.outcome]
              = holeShots[currentHole][last'.type][last'.outcome] + 1]_vars

\* addShot has raised a cell that held shots already, on a hole reached by
\* navigation, while another hole and another cell of the hole hold shots
C23_Witness ==
  /\ last.op = "addShot"
  /\ currentHole > 1
  /\ last.met > 0
  /\ holeShots[currentHole][last.type][last.outcome] = last.met + 1
  /\ \E t \in ShotTypeSet, o \in OutcomeSet : holeShots[1][t][o] > 0

\* C24: k presses of + on a cell followed by k presses of - on the same cell,
\* with nothing in between, leave the whole ledger as it was before them.
C24_AddThenRemove ==
  (last.op = "removeShot" /\ last.adds > 0 /\ last.removes = last.adds) =>
     last.start = Some(holeShots)

\* two presses of + and two of - on a cell that held a shot before them
C24_Witness ==
  /\ last.op = "removeShot"
  /\ last.adds = 2 /\ last.removes = 2
  /\ last.start = Some(holeShots)
  /\ holeShots[currentHole][last.type][last.outcome] = 1

\* the finishRound executions that had a round and a hole with all cells zero
EmptySaves ==
  {i \in 1..Len(runs) : /\ runs[i].round # Null
                        /\ runs[i].counts # Null
                        /\ CountsTotal(runs[i].counts[1]) = 0}

\* C25: an insertShots call with all cells zero never waits for the store and
\* has returned the empty list; a finishRound whose hole is all zero has made
\* such a call, has not failed on it, and has gone on as after an insert that
\* succeeded: done with the hole advanced below the last hole, at or past
\* its completeRound call on the last hole.
C25_EmptyHoleIsNoError ==
  /\ \A k \in CallIds :
       (calls[k].op = "insertShots" /\ CountsTotal(calls[k].shotCounts[1]) = 0) =>
          /\ calls[k].pc = "done"
          /\ calls[k].outcome = "return"
          /\ calls[k].ret = <<>>
  /\ \A i \in EmptySaves :
       /\ runs[i].insert # 0
       /\ calls[runs[i].insert].op = "insertShots"
       /\ calls[runs[i].insert].shotCounts = runs[i].counts
       /\ runs[i].pc # "insert"
       /\ IF runs[i].hole < TotalHoles
          THEN runs[i].pc = "done"
          ELSE /\ runs[i].call # runs[i].insert
               /\ calls[runs[i].call].op = "completeRound"
               /\ calls[runs[i].call].round_id = runs[i].round[1]
               /\ runs[i].pc \in {"complete", "removeItem", "done", "failed"}
               /\ calls[runs[i].call].pc # "done" => runs[i].pc = "complete"

\* an all-zero hole below the last one was finished and the tracker moved on,
\* then the all-zero last hole was finished and the round is complete with
\* no record stored
C25_Witness ==
  /\ \E i, j \in EmptySaves :
       /\ runs[i].hole = 1 /\ runs[i].pc = "done"
       /\ runs[j].hole = TotalHoles /\ runs[j].pc = "done"
       /\ rounds[runs[j].round[1]].is_complete
       /\ rounds[runs[j].round[1]].gross_shots = Some(0)
  /\ shots = EmptyBag
  /\ screen = "scorecard"

(***************************************************************************)
(* The current hole and the closures of the handlers.                      *)
(***************************************************************************)
\* C26: the current hole is one of the holes of the round and the ledger has
\* an entry for it with every cell, in every state of the tracker.
C26_HoleInRange ==
  /\ currentHole \in Holes
  /\ currentHole \in DOMAIN holeShots
  /\ \A h \in DOMAIN holeShots :
       /\ DOMAIN holeShots[h] = ShotTypeSet
       /\ \A t \in ShotTypeSet : DOMAIN holeShots[h][t] = OutcomeSet

\* the last hole reached by finishing the hole before it, after the arrows
\* were used, with the ledger entry of the last hole in place
C26_Witness ==
  /\ currentHole = TotalHoles
  /\ \E i \in 1..Len(runs) :
       runs[i].hole = TotalHoles - 1 /\ runs[i].pc = "done" /\ runs[i].insert # 0
  /\ memo.hole = TotalHoles
  /\ holeShots[currentHole] = ZeroCounts
  /\ LedgerTotal > 0

\* C27: the finishRound started by the Finish Round button of the prompt
\* works on the current hole, on the ledger entry the hole has when the
\* button is pressed, and on the round the tracker has at that moment, as
\* the Complete Round button would.
C27_PromptSeesCurrentState ==
  last.op = "alertFinish" =>
     /\ runs[Len(runs)].hole = currentHole
     /\ runs[Len(runs)].counts = CountsOf(holeShots, currentHole)
     /\ runs[Len(runs)].round = round

\* the prompt was confirmed on the last hole with shots recorded on it and a
\* round created, and the save it started submitted those shots for that round
C27_Witness ==
  /\ last.op = "alertFinish"
  /\ currentHole = TotalHoles
  /\ round # Null
  /\ CountsTotal(holeShots[currentHole]) > 0
  /\ runs[Len(runs)].round = round
  /\ runs[Len(runs)].counts = Some(holeShots[currentHole])
  /\ runs[Len(runs)].pc = "insert"

(***************************************************************************)
(* The round record against the scorecard.                                 *)
(***************************************************************************)
\* the total a scorecard opened now on round r shows
ScorecardTotal(r) ==
  calculateTotals(ForEachShot(InitHoleData(OutcomeSet), ShotsOfRound(r)), OutcomeSet).total

\* C28: in every state, the gross_shots of every complete round is the total
\* the scorecard computes from the records persisted for the round.
C28_GrossIsScorecardTotal ==
  \A r \in RoundIds :
    rounds[r].is_complete => rounds[r].gross_shots = Some(ScorecardTotal(r))

\* a scorecard fetched the records of a complete round that has some and
\* shows as total the round's gross_shots
C28_Witness ==
  /\ card.totals # Null /\ card.read # Null
  /\ LET r == card.roundId[1]
     IN /\ rounds[r].is_complete
        /\ card.read = Some(ShotsOfRound(r))
        /\ card.totals[1].total > 0
        /\ rounds[r].gross_shots = Some(card.totals[1].total)

(***************************************************************************)
(* The round of a tracker session.                                         *)
(***************************************************************************)
\* C29: a tracker session creates at most one round, and all the records it
\* persists carry the id of that round, also when the auth listener delivers
\* a user object while the tracker is mounted.
C29_OneRoundPerSession ==
  /\ Len(rounds) <= 1
  /\ \A x \in BagToSet(shots) : x.round_id = 1
  /\ round # Null => round = Some(1)

\* the listener delivered a user object after the round was created, and a
\* hole saved since then was persisted for the round of the session
C29_Witness ==
  /\ Len(inits) = 2
  /\ inits[1].pc = "done"
  /\ Len(rounds) = 1
  /\ round = Some(1)
  /\ \E i \in 1..Len(runs) : runs[i].pc = "done" /\ runs[i].round = Some(1)
  /\ \E x \in BagToSet(shots) : x.round_id = 1

(***************************************************************************)
(* The order of the steps of finishRound on the last hole.                 *)
(***************************************************************************)
\* the finishRound executions that have called completeRound
Completing == {i \in 1..Len(runs) : runs[i].call # runs[i].insert}

====
